---- MODULE Spec2Model ----
(***************************************************************************)
(* A model of one run of the SkyBlock Profile Extractor command line tool  *)
(* (src/extract_profile.py): main and the functions it calls, with every   *)
(* HTTP exchange, console input and file write as an input of the step     *)
(* that performs it.  Spec is a whole run of main; SpecLister, SpecSelect  *)
(* and SpecExtract run get_player_profiles, select_profile and             *)
(* extract_profile_data alone, from the states in which main calls them.   *)
(* SpecApp is the session of the web page (src/app.py): the two text       *)
(* fields, the "Find Profiles" and "Extract Data" buttons and what the     *)
(* script keeps in st.session_state from one run to the next.              *)
(***************************************************************************)
EXTENDS Integers, Sequences, FiniteSets, TLC

\* ------------------------------------------------------------------ bounds
\* Largest number of profiles the upstream listing returns.
MaxProfiles == 2
\* Number of entries of the extraction plan that a run of the model walks.
PlanBound == 2
\* Largest number of rejected answers at the profile prompt.
MaxPrompts == 1
\* Longest line typed at a prompt.
MaxInputLen == 2

\* ------------------------------------------------------- values and inputs
\* Outcomes of one requests.get inside make_api_call.
Outcomes == {"ok", "http403", "http404", "http500", "network", "bad_json"}

\* Outcomes of writing one file inside save_profile_data.
WriteOutcomes == {"ok", "open_fail", "dump_fail"}

\* Characters of profile names and of the -p argument.
LowerChar(c) ==
    CASE c = "A" -> "a"
      [] c = "B" -> "b"
      [] OTHER -> c

\* str.lower()
lower(s) == [i \in DOMAIN s |-> LowerChar(s[i])]

\* Names the upstream service gives to profiles.
NameSet == {<<"A">>, <<"b">>}

\* Values of args.profile; the empty string stands for None as well, both
\* are falsy in "if requested_profile".
RequestedSet == {<<>>, <<"a">>, <<"B">>, <<"A", "b">>}

\* The timestamps of the upstream payload (not read by get_player_profiles).
SaveTimes == {100, 200}

\* One profile of the upstream payload of /profiles/{uuid}; the dictionary
\* is keyed by profile id and keeps the order of the JSON document, so a
\* payload is a sequence whose i-th profile has id i.
UpstreamProfile(i) ==
    [profile_id: {i}, cute_name: NameSet, selected: BOOLEAN, last_save: SaveTimes]

RECURSIVE UpstreamLists(_)
UpstreamLists(n) ==
    IF n = 0 THEN {<<>>}
    ELSE {Append(l, p) : l \in UpstreamLists(n - 1), p \in UpstreamProfile(n)}

UpstreamPayloads == UNION {UpstreamLists(n) : n \in 0..MaxProfiles}

\* Shapes of the body of /uuid/{username}.
UuidShapes == {"uuid_and_username", "uuid_only", "no_uuid", "empty"}

\* Shapes of the body of /stats/{uuid}.
StatsShapes == {"stats", "stats_without_keys", "no_stats"}

\* Characters typed at a prompt.
InputChars == {"0", "1", "2", "3", "-", "x", " "}

RECURSIVE LinesUpTo(_)
LinesUpTo(n) ==
    IF n = 0 THEN {<<>>}
    ELSE LinesUpTo(n - 1) \cup
         {Append(l, c) : l \in {m \in LinesUpTo(n - 1) : Len(m) = n - 1}, c \in InputChars}

\* What input() yields: a line, Ctrl-C (KeyboardInterrupt) or end of input
\* (EOFError).
Inputs ==
    {[kind |-> "line", text |-> l] : l \in LinesUpTo(MaxInputLen)} \cup
    {[kind |-> "interrupt", text |-> <<>>], [kind |-> "eof", text |-> <<>>]}

\* ------------------------------------------------------------ extraction plan
\* The output file of every entry of extraction_plan, in plan order; the
\* endpoint of an entry is named by the same string.
extraction_plan_files ==
    << "stats.json", "player_stats.json", "networth.json", "skills.json",
       "dungeons.json", "slayer.json", "collections.json", "gear.json",
       "accessories.json", "pets.json", "minions.json", "bestiary.json",
       "crimson_isle.json", "rift.json", "misc.json", "garden.json",
       "inventory_inv_contents.json", "inventory_ender_chest_contents.json",
       "inventory_wardrobe_contents.json",
       "inventory_personal_vault_contents.json", "inventory_bag_contents.json",
       "inventory_fishing_bag.json", "inventory_potion_bag.json",
       "inventory_candy_inventory_contents.json", "inventory_quiver.json" >>

\* The plan a run of the model walks: the first PlanBound entries.
extraction_plan ==
    SubSeq(extraction_plan_files, 1,
           IF PlanBound < Len(extraction_plan_files) THEN PlanBound
           ELSE Len(extraction_plan_files))

total_count == Len(extraction_plan)

\* ------------------------------------------------------------------- state
VARIABLES
    pc,                 \* position in main
    silent,             \* args.silent
    username,           \* "None", "arg" (given on the command line), "typed"
    requested_profile,  \* args.profile
    player_info,        \* "unset", "None", "found"
    upstream,           \* the profiles the service holds for the player
    listing,            \* "unset", "full", "fallback", "None"
    profiles,           \* the list get_player_profiles returned, <<>> for None
    typed,              \* the line input() gave the prompt loop, <<>> outside
    selected_profile,   \* index in profiles of the selected one, 0 for None
    warned,             \* select_profile printed "Profile ... not found"
    prompts,            \* answers rejected by the profile prompt
    output_dir,         \* "unset", "None", "created"
    idx,                \* entries of the plan already walked
    success_count,
    files,              \* the output directory: <<file name, "full" or "partial">>
    succeeded,          \* plan entries whose request and write both went well
    results,            \* the dict extract_profile_data returns
    events,             \* the requests, pauses and console reads, in order
    exit_code,          \* -1 while running
    completed,          \* main reached its last statement
    session_state,      \* app.py: st.session_state (profiles, uuid, real_username)
    widgets,            \* app.py: the username and API key text fields
    last_fetch,         \* app.py: the last run of the fetch block, what it stored
    extract_call        \* app.py: the arguments named at the last "Extract Data"

clivars == <<pc, silent, username, requested_profile, player_info, upstream,
             listing, profiles, typed, selected_profile, warned, prompts,
             output_dir, idx, success_count, files, succeeded, results, events,
             exit_code, completed>>

appvars == <<session_state, widgets, last_fetch, extract_call>>

vars == <<pc, silent, username, requested_profile, player_info, upstream,
          listing, profiles, typed, selected_profile, warned, prompts, output_dir,
          idx, success_count, files, succeeded, results, events, exit_code,
          completed, session_state, widgets, last_fetch, extract_call>>

\* st.session_state.profiles: None, or a list.
NoProfiles == [none |-> TRUE, list |-> <<>>]

\* No fetch block has run, no extraction was started.
NoFetch == [outcome |-> "none", username |-> "", uuid |-> "None"]

NoExtractCall == [made |-> FALSE, uuid |-> "None", username |-> "",
                  fetch |-> NoFetch]

\* The first run of the script: lines 180-185 fill the session state.
SessionStart == [profiles |-> NoProfiles, uuid |-> "None", real_username |-> "None"]

\* The page as the command line tool leaves it: never opened.
AppIdle ==
    /\ session_state = SessionStart
    /\ widgets = [username |-> "", api_key_input |-> ""]
    /\ last_fetch = NoFetch
    /\ extract_call = NoExtractCall

NoResults == [success |-> -1, total |-> -1]

Event(stage, kind, what) == [stage |-> stage, kind |-> kind, what |-> what]

\* Everything main has not touched yet.
Untouched ==
    /\ player_info = "unset"
    /\ listing = "unset"
    /\ profiles = <<>>
    /\ selected_profile = 0
    /\ typed = <<>>
    /\ warned = FALSE
    /\ prompts = 0
    /\ output_dir = "unset"
    /\ idx = 0
    /\ success_count = 0
    /\ files = {}
    /\ succeeded = {}
    /\ results = NoResults
    /\ events = <<>>
    /\ exit_code = -1
    /\ completed = FALSE

\* The payloads of the whole-run specification: the time stamps, which the
\* program never reads, are all equal.
MainPayloads ==
    {p \in UpstreamPayloads : \A i \in DOMAIN p : p[i].last_save = 100}

\* The start of main.
Init ==
    /\ pc = "prereq"
    /\ silent \in BOOLEAN
    /\ username \in {"None", "arg"}
    /\ requested_profile \in RequestedSet
    /\ upstream \in MainPayloads
    /\ Untouched
    /\ AppIdle

\* ------------------------------------------------------------ pure functions
\* make_api_call: what one call does for a given outcome of the request.
\* The pause follows raise_for_status and precedes response.json().
make_api_call(outcome, ignore_403) ==
    CASE outcome = "ok" ->
           [ok |-> TRUE, slept |-> TRUE, error |-> ""]
      [] outcome = "bad_json" ->
           [ok |-> FALSE, slept |-> TRUE, error |-> "failed"]
      [] outcome = "http403" ->
           [ok |-> FALSE, slept |-> FALSE,
            error |-> IF ignore_403 THEN "403 Forbidden" ELSE "access denied"]
      [] outcome = "http404" ->
           [ok |-> FALSE, slept |-> FALSE, error |-> "data not found"]
      [] outcome = "http500" ->
           [ok |-> FALSE, slept |-> FALSE, error |-> "HTTP 500"]
      [] OTHER ->
           [ok |-> FALSE, slept |-> FALSE, error |-> "failed"]

\* The requests and the pause of one make_api_call, as events.
CallEvents(stage, what, requests, slept) ==
    [i \in 1..requests |-> Event(stage, "http", what)] \o
    (IF slept THEN <<Event(stage, "sleep", "RATE_LIMIT")>> ELSE <<>>)

\* get_player_uuid: the response is used when it holds 'uuid'; formatting
\* the message reads 'username', whose absence raises inside the try.
get_player_uuid(outcome, shape) ==
    IF make_api_call(outcome, FALSE).ok /\ shape = "uuid_and_username"
    THEN "found" ELSE "None"

\* The list get_player_profiles builds from the payload of the listing.
build_profile_list(payload) ==
    [i \in DOMAIN payload |->
       [profile_id |-> payload[i].profile_id,
        profile_cute_name |-> payload[i].cute_name,
        selected |-> payload[i].selected]]

\* The one-element list of the fallback to /stats/{uuid}.
fallback_profile_list(name) ==
    <<[profile_id |-> 1, profile_cute_name |-> name, selected |-> TRUE]>>

\* The first strategy of get_player_profiles: the list made of the payload
\* when the call went well, <<>> when it failed or the payload is empty.
full_listing(r, payload) ==
    IF r.ok THEN build_profile_list(payload) ELSE <<>>

\* Whether get_player_profiles goes on to the fallback after a first
\* strategy that gave no list: both except branches and the empty payload
\* fall through to it.
falls_back_unless_denied(r) == r.error # "403 Forbidden"

falls_back(r) == TRUE

\* The second strategy: the one-element list of the active profile, <<>>
\* (None) when the call failed or the body holds no usable 'stats'.
active_profile(r2, shape, name) ==
    IF r2.ok /\ shape = "stats" THEN fallback_profile_list(name) ELSE <<>>

\* Index of the first profile whose name equals the requested one ignoring
\* case, 0 when there is none.
first_match_exact_case(plist, requested) ==
    LET hits == {i \in DOMAIN plist : plist[i].profile_cute_name = requested}
    IN IF hits = {} THEN 0 ELSE CHOOSE i \in hits : \A j \in hits : i <= j

first_match(plist, requested) ==
    LET hits == {i \in DOMAIN plist :
                   lower(plist[i].profile_cute_name) = lower(requested)}
    IN IF hits = {} THEN 0 ELSE CHOOSE i \in hits : \A j \in hits : i <= j

\* The choice of silent mode: the first profile flagged selected, else the
\* first profile.
silent_default_first(plist) == 1

silent_default(plist) ==
    LET sel == {i \in DOMAIN plist : plist[i].selected}
    IN IF sel = {} THEN 1 ELSE CHOOSE i \in sel : \A j \in sel : i <= j

\* select_profile up to its first read of the console: either it returns
\* (index 0 is None) or it goes on to the prompt.
select_profile_warn_always(plist, requested, quiet) ==
    IF Len(plist) = 0 THEN [kind |-> "return", index |-> 0, warned |-> FALSE]
    ELSE LET m == first_match(plist, requested)
             w == requested # <<>> /\ m = 0
         IN IF requested # <<>> /\ m # 0
            THEN [kind |-> "return", index |-> m, warned |-> FALSE]
            ELSE IF Len(plist) = 1
            THEN [kind |-> "return", index |-> 1, warned |-> w]
            ELSE IF ~quiet
            THEN [kind |-> "prompt", index |-> 0, warned |-> w]
            ELSE [kind |-> "return", index |-> silent_default(plist), warned |-> w]

select_profile(plist, requested, quiet) ==
    IF Len(plist) = 0 THEN [kind |-> "return", index |-> 0, warned |-> FALSE]
    ELSE IF Len(plist) = 1 THEN [kind |-> "return", index |-> 1, warned |-> FALSE]
    ELSE LET m == first_match(plist, requested)
             w == requested # <<>> /\ m = 0
         IN IF requested # <<>> /\ m # 0
            THEN [kind |-> "return", index |-> m, warned |-> FALSE]
            ELSE IF ~quiet
            THEN [kind |-> "prompt", index |-> 0, warned |-> w]
            ELSE [kind |-> "return", index |-> silent_default(plist), warned |-> w]

\* str.strip() on the characters of a typed line.
RECURSIVE lstrip(_)
lstrip(s) == IF s # <<>> /\ Head(s) = " " THEN lstrip(Tail(s)) ELSE s

RECURSIVE rstrip(_)
rstrip(s) ==
    IF s # <<>> /\ s[Len(s)] = " " THEN rstrip(SubSeq(s, 1, Len(s) - 1)) ELSE s

strip(s) == rstrip(lstrip(s))

IsDigit(c) == c \in {"0", "1", "2", "3"}

DigitValue(c) == CASE c = "0" -> 0 [] c = "1" -> 1 [] c = "2" -> 2 [] OTHER -> 3

RECURSIVE DigitsValue(_)
DigitsValue(s) ==
    IF s = <<>> THEN 0
    ELSE 10 * DigitsValue(SubSeq(s, 1, Len(s) - 1)) + DigitValue(s[Len(s)])

\* int(choice): an optional sign and at least one digit, else ValueError.
int(s) ==
    LET t == strip(s)
        neg == t # <<>> /\ Head(t) = "-"
        d == IF neg THEN Tail(t) ELSE t
    IN IF d # <<>> /\ \A i \in DOMAIN d : IsDigit(d[i])
       THEN [ok |-> TRUE, value |-> IF neg THEN 0 - DigitsValue(d) ELSE DigitsValue(d)]
       ELSE [ok |-> FALSE, value |-> 0]

\* The pass with the range check made on the number typed, not on the
\* index it stands for.
prompt_choice_zero_based(plist, text) ==
    LET choice == IF strip(text) = <<>> THEN <<"1">> ELSE strip(text)
        n == int(choice)
    IN IF n.ok /\ 0 <= n.value /\ n.value < Len(plist)
       THEN n.value + 1 ELSE 0

\* One pass of the prompt loop of select_profile on a typed line: the index
\* it returns, 0 when the answer is rejected.
prompt_choice(plist, text) ==
    LET choice == IF strip(text) = <<>> THEN <<"1">> ELSE strip(text)
        n == int(choice)
    IN IF n.ok /\ 0 <= n.value - 1 /\ n.value - 1 < Len(plist)
       THEN n.value ELSE 0

\* save_profile_data for a given outcome of the request and of the write:
\* whether it returns True, how many requests it made, whether the pause
\* happened, and what it leaves on disk under the entry's file name.
save_profile_data_retrying(outcome, write) ==
    LET r == make_api_call(outcome, FALSE)
    IN [success |-> r.ok /\ write = "ok",
        requests |-> IF r.ok THEN 1 ELSE 2, slept |-> r.slept,
        file |-> IF ~r.ok \/ write = "open_fail" THEN "none"
                 ELSE IF write = "dump_fail" THEN "partial" ELSE "full"]

save_profile_data(outcome, write) ==
    LET r == make_api_call(outcome, FALSE)
    IN [success |-> r.ok /\ write = "ok", requests |-> 1, slept |-> r.slept,
        file |-> IF ~r.ok \/ write = "open_fail" THEN "none"
                 ELSE IF write = "dump_fail" THEN "partial" ELSE "full"]

\* ------------------------------------------------------- the checks of main
\* Where main goes after each call: a stage name, "exit1" for sys.exit(1).
after_prerequisites(ok) == IF ok THEN "username" ELSE "exit1"

after_uuid_returning(info) == IF info = "None" THEN "return" ELSE "listing"

after_uuid(info) == IF info = "None" THEN "exit1" ELSE "listing"

after_profiles(list) == IF Len(list) = 0 THEN "exit1" ELSE "selection"

after_select_continuing(index) == "mkdir"

after_select(index) == IF index = 0 THEN "exit1" ELSE "mkdir"

after_mkdir_continuing(dir) == "extract"

after_mkdir(dir) == IF dir = "None" THEN "exit1" ELSE "extract"

\* show_summary reads the console unless silent.
summary_waits_always(quiet) == TRUE

summary_waits(quiet) == ~quiet

\* The process exit status for the way main ends.
exit_status(target) ==
    CASE target = "exit1" -> 1
      [] target = "exit130" -> 130
      [] target \in {"return", "end"} -> 0
      [] OTHER -> -1

IsEnd(target) == target \in {"exit1", "exit130", "return", "end"}

\* main moves on to a stage or ends; "end" is falling off its last line.
Goto(target) ==
    /\ pc' = IF IsEnd(target) THEN "done" ELSE target
    /\ exit_code' = exit_status(target)
    /\ completed' = (target = "end")

\* What an exception raised by input() does to main.
input_failure(kind) == IF kind = "interrupt" THEN "exit130" ELSE "exit1"

\* ------------------------------------------------------------------ actions
\* test_prerequisites: one HEAD request to the site, no pause after it.
TestPrerequisites ==
    /\ pc = "prereq"
    /\ \E ok \in BOOLEAN :
         /\ events' = Append(events, Event("prereq", "head", "site"))
         /\ Goto(after_prerequisites(ok))
    /\ UNCHANGED <<appvars, typed, silent, username, requested_profile, player_info, upstream,
                   listing, profiles, selected_profile, warned, prompts,
                   output_dir, idx, success_count, files, succeeded,
                   results>>

\* main, "Get username": the argument, or an error in silent mode, or one
\* read of the console.
GetUsername ==
    /\ pc = "username"
    /\ \/ /\ username = "arg"
          /\ Goto("identity")
          /\ UNCHANGED <<username, events>>
       \/ /\ username = "None"
          /\ silent
          /\ Goto("exit1")
          /\ UNCHANGED <<username, events>>
       \/ /\ username = "None"
          /\ ~silent
          /\ \E inp \in Inputs :
               /\ events' = Append(events, Event("username", "input", "username"))
               /\ IF inp.kind # "line"
                  THEN Goto(input_failure(inp.kind)) /\ UNCHANGED username
                  ELSE IF strip(inp.text) = <<>>
                  THEN Goto("exit1") /\ UNCHANGED username
                  ELSE Goto("identity") /\ username' = "typed"
    /\ UNCHANGED <<appvars, typed, silent, requested_profile, player_info, upstream, listing,
                   profiles, selected_profile, warned, prompts, output_dir,
                   idx, success_count, files, succeeded,
                   results>>

\* main, "Get player UUID": get_player_uuid and the check of its result.
GetPlayerUuid ==
    /\ pc = "identity"
    /\ \E outcome \in Outcomes, shape \in UuidShapes :
         LET r == make_api_call(outcome, FALSE)
             info == get_player_uuid(outcome, shape)
         IN /\ events' = events \o CallEvents("identity", "uuid", 1, r.slept)
            /\ player_info' = info
            /\ Goto(after_uuid(info))
    /\ UNCHANGED <<appvars, typed, silent, username, requested_profile, upstream, listing,
                   profiles, selected_profile, warned, prompts, output_dir,
                   idx, success_count, files, succeeded,
                   results>>

\* main, "Get profiles": get_player_profiles (the full listing, then the
\* fallback to the active profile) and the check of its result.
GetPlayerProfiles ==
    /\ pc = "listing"
    /\ \E outcome \in Outcomes :
         LET r == make_api_call(outcome, TRUE)
             first == full_listing(r, upstream)
             called == events
                         \o CallEvents("listing", "profiles", 1, r.slept)
                         \o (IF outcome = "http403"
                             THEN <<Event("listing", "denied", "profiles")>>
                             ELSE <<>>)
         IN IF first # <<>>
            THEN \* the full listing answers with at least one profile
                 /\ events' = called
                 /\ listing' = "full"
                 /\ profiles' = first
                 /\ Goto(after_profiles(first))
            ELSE IF falls_back(r)
            THEN \* it fails or holds no profile: the fallback
                 \E outcome2 \in Outcomes, shape \in StatsShapes, name \in NameSet :
                   LET r2 == make_api_call(outcome2, FALSE)
                       list == active_profile(r2, shape, name)
                   IN /\ events' = called
                             \o CallEvents("listing", "stats_active", 1, r2.slept)
                      /\ listing' = IF list # <<>> THEN "fallback" ELSE "None"
                      /\ profiles' = list
                      /\ Goto(after_profiles(list))
            ELSE /\ events' = called
                 /\ listing' = "None"
                 /\ profiles' = <<>>
                 /\ Goto(after_profiles(<<>>))
    /\ UNCHANGED <<appvars, typed, silent, username, requested_profile, player_info, upstream,
                   selected_profile, warned, prompts, output_dir, idx,
                   success_count, files, succeeded, results>>

\* main, "Select profile": select_profile up to its return or to its first
\* read of the console.
SelectProfile ==
    /\ pc = "selection"
    /\ LET r == select_profile(profiles, requested_profile, silent)
       IN /\ warned' = r.warned
          /\ IF r.kind = "prompt"
             THEN /\ pc' = "prompt"
                  /\ UNCHANGED <<selected_profile, exit_code, completed>>
             ELSE /\ selected_profile' = r.index
                  /\ Goto(after_select(r.index))
    /\ UNCHANGED <<appvars, typed, silent, username, requested_profile, player_info, upstream,
                   listing, profiles, prompts, output_dir, idx, success_count,
                   files, succeeded, results, events>>

\* The prompt loop of select_profile reads a line: input() returns it or
\* raises. (A line the loop would reject is read only while the bound on
\* the retries allows another pass.)
PromptChoice ==
    /\ pc = "prompt"
    /\ \E inp \in Inputs :
         /\ events' = Append(events, Event("selection", "input", inp.kind))
         /\ CASE inp.kind = "interrupt" ->
                   \* select_profile returns None
                   /\ selected_profile' = 0
                   /\ Goto(after_select(0))
                   /\ UNCHANGED typed
              [] inp.kind = "eof" ->
                   \* EOFError leaves select_profile and reaches main
                   /\ Goto(input_failure(inp.kind))
                   /\ UNCHANGED <<selected_profile, typed>>
              [] OTHER ->
                   /\ prompt_choice(profiles, inp.text) = 0 => prompts < MaxPrompts
                   /\ typed' = inp.text
                   /\ pc' = "answer"
                   /\ UNCHANGED <<selected_profile, exit_code, completed>>
    /\ UNCHANGED <<appvars, silent, username, requested_profile, player_info, upstream,
                   listing, profiles, warned, prompts, output_dir, idx,
                   success_count, files, succeeded, results>>

\* The rest of the pass: the line is stripped, read as a number and checked
\* against the list; the profile is returned or the loop starts over.
AnswerChoice ==
    /\ pc = "answer"
    /\ LET k == prompt_choice(profiles, typed)
       IN IF k # 0
          THEN /\ selected_profile' = k
               /\ Goto(after_select(k))
               /\ UNCHANGED prompts
          ELSE /\ prompts' = prompts + 1
               /\ pc' = "prompt"
               /\ UNCHANGED <<selected_profile, exit_code, completed>>
    /\ typed' = <<>>
    /\ UNCHANGED <<appvars, silent, username, requested_profile, player_info, upstream,
                   listing, profiles, warned, output_dir, idx, success_count,
                   files, succeeded, results, events>>

\* main, "Create output directory".
CreateOutputDirectory ==
    /\ pc = "mkdir"
    /\ \E ok \in BOOLEAN :
         LET dir == IF ok THEN "created" ELSE "None"
         IN /\ output_dir' = dir
            /\ events' = Append(events, Event("mkdir", "mkdir", "output_dir"))
            /\ Goto(after_mkdir(dir))
    /\ UNCHANGED <<appvars, typed, silent, username, requested_profile, player_info, upstream,
                   listing, profiles, selected_profile, warned, prompts, idx,
                   success_count, files, succeeded,
                   results>>

\* One pass of the loop of extract_profile_data over the plan; the last
\* pass returns the counts.
ExtractEntry ==
    /\ pc = "extract"
    /\ idx < total_count
    /\ \E outcome \in Outcomes, write \in WriteOutcomes :
         LET item == extraction_plan[idx + 1]
             r == save_profile_data(outcome, write)
             count == IF r.success THEN success_count + 1 ELSE success_count
         IN /\ events' = events
                   \o CallEvents("extract", item, r.requests, r.slept)
                   \o (IF r.file # "none"
                       THEN <<Event("extract", "write", item)>> ELSE <<>>)
            /\ files' = IF r.file # "none" THEN files \cup {<<item, r.file>>} ELSE files
            /\ succeeded' = IF outcome = "ok" /\ write = "ok"
                            THEN succeeded \cup {idx + 1} ELSE succeeded
            /\ success_count' = count
            /\ idx' = idx + 1
            /\ IF idx + 1 = total_count
               THEN /\ results' = [success |-> count, total |-> total_count]
                    /\ Goto("summary")
               ELSE UNCHANGED <<results, pc, exit_code, completed>>
    /\ UNCHANGED <<appvars, typed, silent, username, requested_profile, player_info, upstream,
                   listing, profiles, selected_profile, warned, prompts,
                   output_dir>>

\* main, "Show summary" and the end of main.
ShowSummary ==
    /\ pc = "summary"
    /\ IF summary_waits(silent)
       THEN \E inp \in {x \in Inputs : x.text = <<>>} :
              /\ events' = Append(events, Event("summary", "input", "enter"))
              /\ IF inp.kind = "line"
                 THEN Goto("end") ELSE Goto(input_failure(inp.kind))
       ELSE /\ Goto("end")
            /\ UNCHANGED events
    /\ UNCHANGED <<appvars, typed, silent, username, requested_profile, player_info, upstream,
                   listing, profiles, selected_profile, warned, prompts,
                   output_dir, idx, success_count, files, succeeded,
                   results>>

Next ==
    \/ TestPrerequisites
    \/ GetUsername
    \/ GetPlayerUuid
    \/ GetPlayerProfiles
    \/ SelectProfile
    \/ PromptChoice
    \/ AnswerChoice
    \/ CreateOutputDirectory
    \/ ExtractEntry
    \/ ShowSummary

Spec == Init /\ [][Next]_vars

\* What main has done when it calls get_player_profiles.
EventsBeforeListing ==
    <<Event("prereq", "head", "site")>> \o CallEvents("identity", "uuid", 1, TRUE)

\* get_player_profiles alone, on every payload.
InitLister ==
    /\ pc = "listing"
    /\ silent \in BOOLEAN
    /\ username = "arg"
    /\ requested_profile \in RequestedSet
    /\ upstream \in UpstreamPayloads
    /\ player_info = "found"
    /\ listing = "unset"
    /\ profiles = <<>>
    /\ selected_profile = 0
    /\ typed = <<>>
    /\ warned = FALSE
    /\ prompts = 0
    /\ output_dir = "unset"
    /\ idx = 0
    /\ success_count = 0
    /\ files = {}
    /\ succeeded = {}
    /\ results = NoResults
    /\ events = EventsBeforeListing
    /\ exit_code = -1
    /\ completed = FALSE
    /\ AppIdle

NextLister == GetPlayerProfiles

SpecLister == InitLister /\ [][NextLister]_vars

\* select_profile alone, on every list the full listing can return.
InitSelect ==
    /\ pc = "selection"
    /\ silent \in BOOLEAN
    /\ username = "arg"
    /\ requested_profile \in RequestedSet
    /\ upstream \in MainPayloads \ {<<>>}
    /\ player_info = "found"
    /\ listing = "full"
    /\ profiles = build_profile_list(upstream)
    /\ selected_profile = 0
    /\ typed = <<>>
    /\ warned = FALSE
    /\ prompts = 0
    /\ output_dir = "unset"
    /\ idx = 0
    /\ success_count = 0
    /\ files = {}
    /\ succeeded = {}
    /\ results = NoResults
    /\ events = EventsBeforeListing \o CallEvents("listing", "profiles", 1, TRUE)
    /\ exit_code = -1
    /\ completed = FALSE
    /\ AppIdle

NextSelect == SelectProfile \/ PromptChoice \/ AnswerChoice

SpecSelect == InitSelect /\ [][NextSelect]_vars

\* extract_profile_data alone, for a player with one profile.
InitExtract ==
    /\ pc = "extract"
    /\ silent \in BOOLEAN
    /\ username = "arg"
    /\ requested_profile \in RequestedSet
    /\ upstream \in {p \in MainPayloads : Len(p) = 1}
    /\ player_info = "found"
    /\ listing = "full"
    /\ profiles = build_profile_list(upstream)
    /\ selected_profile = 1
    /\ typed = <<>>
    /\ warned = FALSE
    /\ prompts = 0
    /\ output_dir = "created"
    /\ idx = 0
    /\ success_count = 0
    /\ files = {}
    /\ succeeded = {}
    /\ results = NoResults
    /\ events = EventsBeforeListing
                  \o CallEvents("listing", "profiles", 1, TRUE)
                  \o <<Event("mkdir", "mkdir", "output_dir")>>
    /\ exit_code = -1
    /\ completed = FALSE
    /\ AppIdle

NextExtract == ExtractEntry

SpecExtract == InitExtract /\ [][NextExtract]_vars

\* ------------------------------------------------------------------
\* The web page (src/app.py)
\* ------------------------------------------------------------------
\* What can stand in the username field.
AppUsernames == {"steve", "Steve", "alex"}

\* What can stand in the API key field.
AppKeys == {"", "key"}

\* The keys of the body get_player_uuid returns, in the order of the body:
\* 'uuid' and 'username' are there (lines 93-95), other keys may be.
ResponseKeys == {<<"uuid", "username">>, <<"username", "uuid">>,
                 <<"uuid", "username", "raw">>}

\* Line 192, uuid_fmt, uuid_raw = get_player_uuid(username): get_player_uuid
\* returns the response dict or None.  Unpacking None raises TypeError, a
\* dict of more than two keys ValueError; a dict of two keys gives its keys.
unpack_pair(info, keys) ==
    IF info = "None" \/ Len(keys) # 2
    THEN [raised |-> TRUE, first |-> "None"]
    ELSE [raised |-> FALSE, first |-> keys[1]]

\* The functions the module extract_profile defines.
extract_profile_defines ==
    {"print_header", "print_success", "print_info", "print_warning",
     "print_error", "make_api_call", "get_player_uuid", "get_player_profiles",
     "select_profile", "create_output_directory", "save_profile_data",
     "extract_profile_data", "show_summary", "test_prerequisites", "main"}

\* extract_profile.<name> raises AttributeError when the module has no
\* such function (lines 196 and 245).
attribute_raises(name) == name \notin extract_profile_defines

\* Line 188: the fetch block runs on a click with both fields filled.
fetch_requested(name, key) == name # "" /\ key # ""

\* Line 204, in the except branch.
profiles_after_failure_empty_list(old) == [none |-> FALSE, list |-> <<>>]

profiles_after_failure(old) == NoProfiles

\* Line 210: the profile choice and the "Extract Data" button are shown.
extract_offered(p) == ~p.none /\ Len(p.list) > 0

\* Line 249: st.session_state.real_username or username.
extract_username(real_username, name) ==
    IF real_username \notin {"None", ""} THEN real_username ELSE name

\* The places of the fetch block that hand control to Streamlit, which
\* ends the run there when the user typed or clicked while the block
\* waited for its request: the spinner, the stores into st.session_state
\* (before the store is made) and st.error.  The exception that ends the
\* run is no Exception: line 202 does not catch it.  "none": the run is
\* not ended.
StopPoints == {"none", "spinner189", "uuid193", "error203", "reset204"}

\* The places the block of lines 189-204 passes, in order, for a given
\* answer of get_player_uuid.  Line 192 raises, or line 193 stores the
\* first key and line 196 raises (extract_profile has no get_profiles);
\* either way the except branch follows.  Lines 197-200 are not reached.
fetch_path(pair) ==
    CASE pair.raised ->
           <<"spinner189", "error203", "reset204">>
      [] ~pair.raised /\ attribute_raises("get_profiles") ->
           <<"spinner189", "uuid193", "error203", "reset204">>

\* What one place of the block does to the session state.
fetch_step(state, pair, point) ==
    CASE point = "uuid193" -> [state EXCEPT !.uuid = pair.first]
      [] point = "reset204" ->
           [state EXCEPT !.profiles = profiles_after_failure(@)]
      [] OTHER -> state

\* The places of a path passed before the run is ended.
RECURSIVE passed(_, _)
passed(path, stop_at) ==
    IF path = <<>> \/ Head(path) = stop_at
    THEN <<>>
    ELSE <<Head(path)>> \o passed(Tail(path), stop_at)

\* The session state after the given places.
RECURSIVE fetch_run(_, _, _)
fetch_run(state, pair, points) ==
    IF points = <<>>
    THEN state
    ELSE fetch_run(fetch_step(state, pair, Head(points)), pair, Tail(points))

\* The fetch block for a given answer of get_player_uuid and a given end.
fetch_profiles(state, info, keys, stop_at) ==
    LET pair == unpack_pair(info, keys)
    IN fetch_run(state, pair, passed(fetch_path(pair), stop_at))

\* Whether the fetch block stored a list of profiles: it never reaches
\* line 197.
fetch_outcome(info, keys) ==
    IF unpack_pair(info, keys).raised \/ attribute_raises("get_profiles")
    THEN "failed" ELSE "ok"

\* The uuid the block stored, "None" when the run did not reach line 193.
fetch_uuid(info, keys, stop_at) ==
    LET pair == unpack_pair(info, keys)
        done == passed(fetch_path(pair), stop_at)
    IN IF \E i \in DOMAIN done : done[i] = "uuid193"
       THEN pair.first ELSE "None"

\* The buttons the last run of the script has put on the page.
Buttons ==
    {"find"} \cup (IF extract_offered(session_state.profiles)
                   THEN {"extract"} ELSE {})

\* The user edits the username field; the script runs again, no button.
TypeUsername ==
    /\ \E name \in AppUsernames \cup {""} :
         /\ name # widgets.username
         /\ widgets' = [widgets EXCEPT !.username = name]
    /\ UNCHANGED <<clivars, session_state, last_fetch, extract_call>>

\* The user edits the API key field.
TypeApiKey ==
    /\ \E key \in AppKeys :
         /\ key # widgets.api_key_input
         /\ widgets' = [widgets EXCEPT !.api_key_input = key]
    /\ UNCHANGED <<clivars, session_state, last_fetch, extract_call>>

\* A click on a button of the page: the script runs again.  "Find
\* Profiles" runs lines 188-207, to their end or to the stop point where
\* Streamlit ends the run (what the user did meanwhile is then a step of
\* its own; the run read both fields at its start); "Extract Data" runs
\* lines 231-271, where
\* the arguments of lines 246-249 are named and the session state stays as
\* it is (extract_profile has no extract_data: line 245 raises, line 270
\* catches).
ClickButton ==
    /\ \E button \in Buttons :
         IF button = "find"
         THEN /\ IF fetch_requested(widgets.username, widgets.api_key_input)
                 THEN \E outcome \in Outcomes, shape \in UuidShapes,
                         keys \in ResponseKeys, stop_at \in StopPoints :
                        LET info == get_player_uuid(outcome, shape)
                        IN /\ session_state' =
                                fetch_profiles(session_state, info, keys, stop_at)
                           /\ last_fetch' =
                                [outcome |-> fetch_outcome(info, keys),
                                 username |-> widgets.username,
                                 uuid |-> fetch_uuid(info, keys, stop_at)]
                 ELSE UNCHANGED <<session_state, last_fetch>>
              /\ UNCHANGED extract_call
         ELSE /\ extract_call' =
                   [made |-> TRUE,
                    uuid |-> session_state.uuid,
                    username |-> extract_username(session_state.real_username,
                                                  widgets.username),
                    fetch |-> last_fetch]
              /\ UNCHANGED <<session_state, last_fetch>>
    /\ UNCHANGED <<clivars, widgets>>

InitApp ==
    /\ pc = "prereq"
    /\ silent = FALSE
    /\ username = "None"
    /\ requested_profile = <<>>
    /\ upstream = <<>>
    /\ Untouched
    /\ session_state = SessionStart
    /\ widgets \in [username : {""}, api_key_input : AppKeys]
    /\ last_fetch = NoFetch
    /\ extract_call = NoExtractCall

NextApp == TypeUsername \/ TypeApiKey \/ ClickButton

SpecApp == InitApp /\ [][NextApp]_vars

TypeOK ==
    /\ pc \in {"prereq", "username", "identity", "listing", "selection",
               "prompt", "answer", "mkdir", "extract", "summary", "done"}
    /\ exit_code \in {-1, 0, 1, 130}
    /\ selected_profile \in 0..Len(profiles)
    /\ idx \in 0..total_count
    /\ success_count \in 0..idx

\* ------------------------------------------------------- derived notions
\* select_profile has been called and is past its first statement.
PastSelection == Len(profiles) > 0 /\ pc # "selection"

\* select_profile has returned a profile.
Selected == selected_profile # 0

\* Some profile of the list has the requested name, ignoring case.
Matches == {i \in DOMAIN profiles :
              lower(profiles[i].profile_cute_name) = lower(requested_profile)}

\* The console has been read at the given stage.
InputAt(stage) ==
    \E i \in DOMAIN events : events[i].kind = "input" /\ events[i].stage = stage

\* The endpoints requested by extract_profile_data, in order.
ExtractRequests ==
    LET IsReq(e) == e.kind = "http" /\ e.stage = "extract"
        reqs == SelectSeq(events, IsReq)
    IN [i \in DOMAIN reqs |-> reqs[i].what]

FileNames == {f[1] : f \in files}

Returned == results # NoResults

StageRank(stage) ==
    CASE stage = "prereq" -> 0
      [] stage = "username" -> 1
      [] stage = "identity" -> 2
      [] stage = "listing" -> 3
      [] stage = "selection" -> 4
      [] stage = "mkdir" -> 5
      [] stage = "extract" -> 6
      [] OTHER -> 7

\* No request, pause, console read or write of a stage after the given one.
NothingAfter(stage) ==
    \A i \in DOMAIN events : StageRank(events[i].stage) <= StageRank(stage)

\* --------------------------------------------------------------------- C1
\* C1 as stated: when extract_profile_data returns, succeeded is the number
\* M of entries that succeeded, attempted is the length N of the plan, and
\* the output directory holds M + 1 files (M auxiliary files and one file
\* with the full raw payload).
C1_MPlusOneFiles ==
    Returned =>
      /\ results.success = Cardinality(succeeded)
      /\ results.total = total_count
      /\ Cardinality(FileNames) = Cardinality(succeeded) + 1

\* --------------------------------------------------------------------- C2
\* C2: the requests of extract_profile_data are, at every moment, the first
\* idx endpoints of the plan, one request each and in plan order, and the
\* loop is left only after the last entry, whatever failed before.
C2_EachEntryOnceInOrder ==
    /\ ExtractRequests = SubSeq(extraction_plan, 1, idx)
    /\ (pc = "extract" => idx < total_count)
    /\ (output_dir = "created" /\ pc # "extract" => idx = total_count /\ Returned)

\* The batch went on after a failed entry.
C2_Witness ==
    /\ Returned
    /\ \E i \in 1..total_count, j \in 1..total_count :
         i < j /\ i \notin succeeded /\ j \in succeeded
    /\ Len(ExtractRequests) = total_count

\* --------------------------------------------------------------------- C3
\* C3: when main has ended, its exit status is not zero if the identity was
\* not resolved, if no profile was listed, or if the username was missing
\* in silent mode, and it is zero if main reached its last statement, also
\* when fetches of the plan failed.
C3_ExitStatus ==
    pc = "done" =>
      /\ exit_code # -1
      /\ (player_info = "None" => exit_code # 0)
      /\ (listing = "None" => exit_code # 0)
      /\ (username = "None" /\ silent => exit_code # 0)
      /\ (completed => exit_code = 0)
      /\ (exit_code = 0 => Returned)

\* A run that completed although every fetch of the plan failed.
C3_Witness ==
    /\ pc = "done"
    /\ completed
    /\ results.success = 0
    /\ exit_code = 0

\* --------------------------------------------------------------------- C4
\* C4: when the requested name equals, ignoring case, the name of a profile
\* of the list, select_profile returns a profile of that name (the first in
\* the list) without reading the console, silent or not.
C4_RequestedNameWins ==
    (PastSelection /\ requested_profile # <<>> /\ Matches # {}) =>
      /\ Selected
      /\ selected_profile \in Matches
      /\ \A i \in Matches : selected_profile <= i
      /\ pc # "prompt"
      /\ ~InputAt("selection")

\* Interactive mode, two profiles, the second one requested in another case.
C4_Witness ==
    /\ ~silent
    /\ Len(profiles) = 2
    /\ requested_profile = <<"B">>
    /\ profiles[1].profile_cute_name = <<"A">>
    /\ profiles[2].profile_cute_name = <<"b">>
    /\ selected_profile = 2
    /\ pc = "mkdir"

\* --------------------------------------------------------------------- C5
\* C5 as stated: with no requested name, in silent mode, select_profile
\* returns the first element of the list.
C5_FirstElement ==
    (PastSelection /\ silent /\ requested_profile = <<>>) => selected_profile = 1

\* C5 amended: with no requested name, in silent mode, select_profile
\* returns the first profile flagged selected, and the first element of the
\* list when no profile is flagged.
C5_SelectedElseFirst ==
    (PastSelection /\ silent /\ requested_profile = <<>>) =>
      LET flagged == {i \in DOMAIN profiles : profiles[i].selected}
      IN /\ Selected
         /\ flagged = {} => selected_profile = 1
         /\ flagged # {} =>
              /\ selected_profile \in flagged
              /\ \A i \in flagged : selected_profile <= i
         /\ ~InputAt("selection")

\* Silent mode, no requested name, only the second profile flagged.
C5_Witness ==
    /\ silent
    /\ requested_profile = <<>>
    /\ Len(profiles) = 2
    /\ ~profiles[1].selected
    /\ profiles[2].selected
    /\ selected_profile = 2

\* --------------------------------------------------------------------- C6
\* C6 as stated: when the requested name matches no profile of a non-empty
\* list (a list of one profile included), select_profile warns and falls
\* through to the default; in silent mode it returns the first element.
C6_WarnsThenFirst ==
    (PastSelection /\ requested_profile # <<>> /\ Matches = {}) =>
      /\ warned
      /\ (silent => selected_profile = 1)

\* C6 amended: when the requested name matches no profile, a list of one
\* profile yields that profile without a warning; a longer list yields the
\* warning and then the default selection, which in silent mode is the first
\* profile flagged selected, else the first element, and otherwise is the
\* prompt.
C6_WarnsOnLongerLists ==
    (PastSelection /\ requested_profile # <<>> /\ Matches = {}) =>
      LET flagged == {i \in DOMAIN profiles : profiles[i].selected}
      IN /\ Len(profiles) = 1 => ~warned /\ selected_profile = 1
         /\ Len(profiles) > 1 =>
              /\ warned
              /\ silent /\ flagged = {} => selected_profile = 1
              /\ silent /\ flagged # {} =>
                   /\ selected_profile \in flagged
                   /\ \A i \in flagged : selected_profile <= i
              /\ ~silent => pc = "prompt" \/ InputAt("selection")

\* Silent mode, two profiles, none of the requested name: the warning, then
\* the flagged second profile.
C6_Witness ==
    /\ silent
    /\ Len(profiles) = 2
    /\ requested_profile # <<>>
    /\ Matches = {}
    /\ warned
    /\ selected_profile = 2

\* --------------------------------------------------------------------- C7
\* The last_save the upstream payload gives for a profile of the list.
LastSaved(profile) == upstream[profile.profile_id].last_save

\* C7 as stated: the list of get_player_profiles is ordered by last_saved,
\* latest first, and profiles of equal last_saved keep their upstream order.
C7_SortedByLastSaved ==
    listing = "full" =>
      \A i \in DOMAIN profiles, j \in DOMAIN profiles :
        i < j =>
          \/ LastSaved(profiles[i]) > LastSaved(profiles[j])
          \/ /\ LastSaved(profiles[i]) = LastSaved(profiles[j])
             /\ profiles[i].profile_id < profiles[j].profile_id

\* --------------------------------------------------------------------- C8
\* How far main has come: the stage, then the entries of the plan walked.
PcRank ==
    CASE pc = "prereq" -> 0
      [] pc = "username" -> 1
      [] pc = "identity" -> 2
      [] pc = "listing" -> 3
      [] pc = "selection" -> 4
      [] pc = "prompt" -> 5
      [] pc = "answer" -> 5
      [] pc = "mkdir" -> 6
      [] pc = "extract" -> 7
      [] pc = "summary" -> 8
      [] OTHER -> 9

Progress == PcRank * (total_count + 1) + idx

\* C8: in silent mode no step of main reads the console (not for the
\* username, not for the profile, not after the summary); every silent run
\* ends, since as long as it has not ended a step is possible and every step
\* moves main forward along its bounded course.
C8_SilentNeverPrompts ==
    /\ [](silent => /\ pc # "prompt"
                    /\ \A i \in DOMAIN events : events[i].kind # "input"
                    /\ (pc = "done" \/ ENABLED Next))
    /\ [][silent => Progress' > Progress]_vars

\* A silent run over several profiles, with a requested name that matches
\* none, that reached the end of main.
C8_Witness ==
    /\ silent
    /\ completed
    /\ Len(profiles) > 1
    /\ warned
    /\ pc = "done"

\* --------------------------------------------------------------------- C9
\* C9 as stated: between every two consecutive requests of make_api_call
\* there is a pause, whether the earlier request succeeded or failed.
C9_PauseBetweenCalls ==
    \A i \in DOMAIN events, j \in DOMAIN events :
      ( /\ i < j
        /\ events[i].kind = "http"
        /\ events[j].kind = "http"
        /\ \A k \in (i + 1)..(j - 1) : events[k].kind # "http" )
      => \E k \in (i + 1)..(j - 1) : events[k].kind = "sleep"

\* -------------------------------------------------------------------- C10
\* What each stage needs of the stages before it, and nothing of a later
\* stage once a stage has failed.
StagesInOrder ==
    \A i \in DOMAIN events, j \in DOMAIN events :
      i < j => StageRank(events[i].stage) <= StageRank(events[j].stage)

NothingAfterFailure ==
    /\ player_info # "found" => NothingAfter("identity") /\ listing = "unset"
    /\ Len(profiles) = 0 => NothingAfter("listing") /\ selected_profile = 0
    /\ selected_profile = 0 => NothingAfter("selection") /\ output_dir = "unset"
    /\ output_dir # "created" => NothingAfter("mkdir") /\ files = {} /\ idx = 0
    /\ ~Returned => NothingAfter("extract")
    /\ exit_code # -1 => pc = "done"
    /\ player_info = "None" \/ listing = "None" \/ output_dir = "None" => pc = "done"

\* C10: the stages of a run follow one another in the order identity,
\* listing, selection, directory, extraction, summary; once a stage has
\* failed the run has ended, with no request and no write of a later stage,
\* and an ended run takes no further step.
C10_StagesInOrderAndFailFast ==
    /\ [](StagesInOrder /\ NothingAfterFailure)
    /\ [][pc # "done"]_vars

\* The directory could not be created: the run ended before any request of
\* the extraction.
C10_Witness ==
    /\ output_dir = "None"
    /\ pc = "done"
    /\ exit_code = 1
    /\ Selected


\* ------------------------------------------------------------------
\* The Profile Lister's two strategies (SpecLister)
\* ------------------------------------------------------------------

\* The lister has run: it returned a list or None.
ListerReturned == listing # "unset"

\* The requests of the listing stage, in order.
ListingRequests ==
    LET at == {i \in 1..Len(events) :
                 events[i].stage = "listing" /\ events[i].kind = "http"}
        nth[k \in 0..Len(events)] ==
            IF k = 0 THEN <<>>
            ELSE IF k \in at THEN Append(nth[k - 1], events[k].what)
            ELSE nth[k - 1]
    IN nth[Len(events)]

\* The full listing was answered with the permission-denied status.
FullListingDenied ==
    \E i \in 1..Len(events) :
       events[i].stage = "listing" /\ events[i].kind = "denied"

\* The fallback strategy was used: the active-profile endpoint was asked
\* after the full listing.
FallbackUsed == ListingRequests = <<"profiles", "stats_active">>

\* C11: once get_player_profiles has returned, (a) a full listing denied
\* with the permission-denied status was followed by the fallback request;
\* (b) the lister returned None exactly when no strategy yielded a
\* profile, that is, both strategies were asked and the result holds no
\* profile; (c) a returned list is never empty, it comes from the full
\* listing when only that endpoint was asked, and a fallback list has
\* exactly one element, marked selected.
C11_FallbackAndFailure ==
    ListerReturned =>
       /\ FullListingDenied => FallbackUsed
       /\ (listing = "None") <=> (Len(profiles) = 0)
       /\ listing = "None" => FallbackUsed
       /\ listing \in {"full", "fallback"} => Len(profiles) >= 1
       /\ listing = "full" <=> ListingRequests = <<"profiles">>
       /\ listing = "fallback" =>
             /\ FallbackUsed
             /\ Len(profiles) = 1
             /\ profiles[1].selected
       /\ Len(upstream) = 0 => FallbackUsed

\* A full listing denied with 403 and a fallback that returned the
\* one-element list.
C11_Witness ==
    /\ FullListingDenied
    /\ listing = "fallback"
    /\ Len(profiles) = 1
    /\ Len(upstream) >= 2


\* ------------------------------------------------------------------
\* The interactive prompt (SpecSelect)
\* ------------------------------------------------------------------

\* The typed line without the blanks around it.
TypedText == strip(typed)

\* The typed line is a whole number (an optional minus sign, then digits).
TypedIsNumber ==
    LET d == IF TypedText # <<>> /\ Head(TypedText) = "-"
             THEN Tail(TypedText) ELSE TypedText
    IN d # <<>> /\ \A i \in DOMAIN d : d[i] \in {"0", "1", "2", "3"}

\* The number the typed line stands for; an empty line stands for 1.
TypedNumber ==
    IF TypedText = <<>> THEN 1
    ELSE IF Head(TypedText) = "-" THEN 0 - DigitsValue(Tail(TypedText))
    ELSE DigitsValue(TypedText)

\* The typed line is a valid answer: empty, or a number k, 1 <= k <= n.
TypedIsValid ==
    \/ TypedText = <<>>
    \/ TypedIsNumber /\ 1 <= TypedNumber /\ TypedNumber <= Len(profiles)

\* C12: the prompt is reached only in interactive mode, with more than one
\* profile and no profile of the requested name; there, a pass of the loop
\* over a typed line returns profiles[k-1] (the model's index k) when the
\* line is a number k with 1 <= k <= number of profiles, the first profile
\* when the line is empty or blank, and otherwise (a line that is no
\* number, 0, a negative number, a number beyond the list) returns nothing
\* and prompts again, the list and the mode unchanged, however many
\* answers were rejected before.
C12_PromptUntilValid ==
    /\ [](pc \in {"prompt", "answer"} =>
             /\ ~silent
             /\ Len(profiles) > 1
             /\ Matches = {}
             /\ selected_profile = 0)
    /\ [][pc = "answer" =>
             IF TypedIsValid
             THEN /\ selected_profile' = TypedNumber
                  /\ selected_profile' \in 1..Len(profiles)
                  /\ pc' = "mkdir"
                  /\ prompts' = prompts
             ELSE /\ selected_profile' = 0
                  /\ pc' = "prompt"
                  /\ prompts' = prompts + 1
                  /\ profiles' = profiles]_vars

\* After a rejected answer the second profile of the list was chosen by
\* its number.
C12_Witness ==
    /\ ~silent
    /\ prompts >= 1
    /\ selected_profile = 2
    /\ pc = "mkdir"
    /\ \E i \in DOMAIN events :
          events[i].stage = "selection" /\ events[i].kind = "input"


\* ------------------------------------------------------------------
\* Runs that end without a selection (Spec)
\* ------------------------------------------------------------------

\* select_profile has been left, by a return or by an exception.
SelectionLeft == PastSelection /\ pc \notin {"prompt", "answer"}

\* The user interrupted the prompt of select_profile.
PromptInterrupted ==
    \E i \in DOMAIN events :
       /\ events[i].stage = "selection"
       /\ events[i].kind = "input"
       /\ events[i].what = "interrupt"

\* The console was closed under the prompt of select_profile.
PromptClosed ==
    \E i \in DOMAIN events :
       /\ events[i].stage = "selection"
       /\ events[i].kind = "input"
       /\ events[i].what = "eof"

\* Nothing of the output directory exists: it was not asked for and no
\* file was written.
NoOutputDirectory ==
    /\ output_dir = "unset"
    /\ files = {}
    /\ \A i \in DOMAIN events : events[i].stage \notin {"mkdir", "extract"}

\* C13: (a) in silent mode, whatever the non-empty list and the requested
\* name, select_profile returns an element of the list without reading the
\* console; (b) on an empty list it returns None; on a non-empty one
\* main is left without a selection only when the prompt of interactive
\* mode was interrupted (select_profile returned None) or closed (it
\* raised); (c) then the run has ended with a non-zero exit status and
\* no output directory.
C13_NoSelectionOnlyOnInterrupt ==
    /\ silent /\ SelectionLeft =>
          /\ Selected
          /\ selected_profile \in DOMAIN profiles
          /\ ~InputAt("selection")
    /\ \A requested \in RequestedSet, quiet \in BOOLEAN :
          LET r == select_profile(<<>>, requested, quiet)
          IN r.kind = "return" /\ r.index = 0
    /\ SelectionLeft /\ ~Selected =>
          /\ ~silent
          /\ PromptInterrupted \/ PromptClosed
    /\ PromptInterrupted => ~Selected /\ exit_code = 1
    /\ PastSelection /\ pc \notin {"prompt", "answer"} /\ ~Selected =>
          /\ pc = "done"
          /\ exit_code \notin {-1, 0}
          /\ ~completed
          /\ NoOutputDirectory

\* An interactive run over two profiles whose prompt was interrupted after
\* a rejected answer.
C13_Witness ==
    /\ ~silent
    /\ Len(profiles) > 1
    /\ prompts >= 1
    /\ PromptInterrupted
    /\ pc = "done"
    /\ exit_code = 1
    /\ output_dir = "unset"


\* ------------------------------------------------------------------
\* The session state of the web page (SpecApp)
\* ------------------------------------------------------------------

====
